---- MODULE Spec2Model ----
(***************************************************************************)
(* githubranger: a thin client over a remote hosting API.  The model is    *)
(* the client (transport helper, Org, Repo, User, ensure_repo_state) run   *)
(* against a remote that holds one repository, its collaborators and one   *)
(* file, and that answers every request with a response of its choosing.   *)
(* Modules are taken where the sources hold them: util, org and repo from  *)
(* reporanger, token, user and helpers from githubranger.                  *)
(***************************************************************************)
EXTENDS Integers, Sequences, FiniteSets, TLC

VARIABLES
    repoExists,   \* remote: the repository exists
    access,       \* remote: the users that are collaborators of the repository
    fileRev,      \* remote: revision marker of the file (0: the file is absent)
    call,         \* the operation in progress and its arguments
    pc,           \* position inside the operation ("idle", a label, "done")
    idx,          \* loop position: index into the user list, or the page number
    sha,          \* Repo.commit: data["sha"] (NoSha: the key is not set)
    rows,         \* Org.get_repos: df_, as the sequence of page chunks concatenated
    result,       \* what the operation returned or raised
    log,          \* the requests this call has issued, in order
    rlAt,         \* position in log of the first rate-limited answer (0: none)
    faults,       \* answers that were not the remote's truthful answer, since the caller's last reset
    ext,          \* steps another actor took on the remote, since the caller's last reset
    pre,          \* the remote state when the call started
    probe,        \* the remote's answer to a top-level exists() probe, and the file seen by commit
    ncall,        \* ensure_repo_state session: calls started so far
    prev,         \* ensure_repo_state session: summary of the previous call
    hVerb,        \* transport helper exercised alone: the verb
    hResp,        \* transport helper exercised alone: the response
    hOut,         \* transport helper exercised alone: the outcome
    content,      \* Repo.file_content: the "content" field of the body it was answered with
    mutFailed,    \* a mutating request of this call was answered with a failure status
    token,        \* Token._token
    orgHeaders,   \* self.headers of each Org object ("unbuilt": not constructed yet)
    sent          \* the request built last: who built it, its headers, Token._token then

vars == <<repoExists, access, fileRev, call, pc, idx, sha, rows, result, log, rlAt,
          faults, ext, pre, probe, ncall, prev, hVerb, hResp, hOut,
          content, mutFailed, token, orgHeaders, sent>>

remoteVars == <<repoExists, access, fileRev>>
httpVars == <<hVerb, hResp, hOut>>
sessVars == <<ncall, prev>>
tokVars == <<token, orgHeaders, sent>>

----------------------------------------------------------------------------
(* Bounds of the model *)

MaxUsers == 2     \* longest user list passed to an operation
MaxDisturb == 1   \* untruthful or failing answers plus steps of another actor, per
                  \* call (per session of ensure_repo_state calls)
MaxRev == 2       \* revisions of the file
MaxCalls == 2     \* successive calls of ensure_repo_state in one session
MaxOrgPages == 3  \* pages of repositories an organization can hold

(* Program constants *)

PerPage == 100    \* org.py: params = {"per_page": 100, "page": 1}
PageCap == 2      \* org.py: if params["page"] > 2: break

----------------------------------------------------------------------------
(* The remote's fixed population *)

ExistingUsers == {"alice", "bob"}
Users == ExistingUsers \cup {"ghost"}
UserExists(u) == u \in ExistingUsers

NoTemplate == "none"
Templates == {"tmpl", "missing"}
TemplateExists(t) == t = "tmpl"

Orgs == {"acme", "nosuch"}
OrgExists(o) == o = "acme"
OrgSizes == UNION {{k * PerPage, k * PerPage + 1} : k \in 0..(MaxOrgPages - 1)}

NoSha == -2       \* data has no "sha" key
NullSha == -1     \* data["sha"] is None

----------------------------------------------------------------------------
(* Responses of the HTTP transport *)

Statuses == {200, 201, 204, 403, 404, 422}
Bodies == {"obj", "other", "bad"}
    \* "obj": the JSON the resource documents; "other": JSON of another shape;
    \* "bad": not JSON

StatusResp(s, b, z) == [kind |-> "status", status |-> s, body |-> b, rl0 |-> z]
ExcResp(k) == [kind |-> k, status |-> 0, body |-> "bad", rl0 |-> FALSE]

StatusResponses == {StatusResp(s, b, z) : s \in Statuses, b \in Bodies, z \in BOOLEAN}
ExcResponses == {ExcResp(k) : k \in {"timeout", "connerr", "reqexc"}}
Responses == StatusResponses \cup ExcResponses

IsRateLimited(r) == r.kind = "status" /\ r.status = 403 /\ r.rl0

Ret(v) == [kind |-> "ret", val |-> v, status |-> 0]
Raise(e) == [kind |-> "raise", val |-> e, status |-> 0]
RaiseStatus(e, s) == [kind |-> "raise", val |-> e, status |-> s]
NoResult == [kind |-> "none", val |-> "", status |-> 0]

\* try: requests.<verb>(...) except Timeout / ConnectionError / RequestException
TransportError(r) ==
    IF r.kind \in {"timeout", "connerr"} THEN Raise("ConnectionError")
    ELSE Raise("RuntimeError:transport")

ParseJson(r) ==
    IF r.body = "bad" THEN Raise("RuntimeError:json") ELSE Ret(r.body)

ErrorStatus(r) ==
    IF r.status = 404 THEN Raise("ValueError:notfound")
    ELSE IF r.status = 403 /\ r.rl0 THEN Raise("RuntimeError:ratelimit")
    ELSE RaiseStatus("RuntimeError:unexpected", r.status)

\* util.get
get(r) ==
    IF r.kind # "status" THEN TransportError(r)
    ELSE IF r.status = 204 THEN Ret("marker204")
    ELSE IF r.status = 200 THEN ParseJson(r)
    ELSE ErrorStatus(r)

\* util.post
post(r) ==
    IF r.kind # "status" THEN TransportError(r)
    ELSE IF r.status \in {200, 201} THEN ParseJson(r)
    ELSE IF r.status = 204 THEN Ret("marker204")
    ELSE ErrorStatus(r)

\* put that hands back the body of a refusal in place of raising
put_Lenient(r) ==
    IF r.kind # "status" THEN TransportError(r)
    ELSE IF r.status = 204 THEN Ret("marker204")
    ELSE ParseJson(r)

\* util.put
put(r) ==
    IF r.kind # "status" THEN TransportError(r)
    ELSE IF r.status \in {200, 201} THEN ParseJson(r)
    ELSE IF r.status = 204 THEN Ret("marker204")
    ELSE ErrorStatus(r)

\* Org._get
Org_get(r) ==
    IF r.kind # "status" THEN TransportError(r)
    ELSE IF r.status = 200 THEN ParseJson(r)
    ELSE ErrorStatus(r)

Verbs == {"get", "post", "put", "_get"}

Dispatch(v, r) ==
    CASE v = "get" -> get(r)
      [] v = "post" -> post(r)
      [] v = "put" -> put(r)
      [] v = "_get" -> Org_get(r)

\* Python classes of the raised errors: what `except ValueError` catches
IsValueError(e) ==
    e \in {"ValueError:notfound", "ValueError:exists", "ValueError:template"}

----------------------------------------------------------------------------
(* Python values and the entity probes built on the transport helper *)

\* exists() with `except Exception` in place of `except ValueError`
exists_get_CatchAll(r) ==
    IF get(r).kind = "ret" THEN Ret("True") ELSE Ret("False")

\* Repo.exists / User.exists: get(...) -> True, except ValueError -> False
exists_get(r) ==
    LET o == get(r) IN
    IF o.kind = "ret" THEN Ret("True")
    ELSE IF IsValueError(o.val) THEN Ret("False")
    ELSE o

\* Repo.exists
Repo_exists(r) == exists_get(r)

\* User.exists
User_exists(r) == exists_get(r)

\* Org.exists: self._get(...) -> True, except ValueError -> False
Org_exists(r) ==
    LET o == Org_get(r) IN
    IF o.kind = "ret" THEN Ret("True")
    ELSE IF IsValueError(o.val) THEN Ret("False")
    ELSE o

\* requests.get / requests.put called directly: the transport's exception reaches
\* the caller as it is, every status comes back as a response object
RawError(r) ==
    CASE r.kind = "timeout" -> Raise("requests.Timeout")
      [] r.kind = "connerr" -> Raise("requests.ConnectionError")
      [] OTHER -> Raise("requests.RequestException")

\* the access probe testing for 200 in place of 204
has_access_200(r) ==
    IF r.kind # "status" THEN RawError(r)
    ELSE IF r.status = 200 THEN Ret("True")
    ELSE Ret("False")

\* Repo.has_access, and the probe of User.can_access: status_code == 204
has_access(r) ==
    IF r.kind # "status" THEN RawError(r)
    ELSE IF r.status = 204 THEN Ret("True")
    ELSE Ret("False")

----------------------------------------------------------------------------
(* Repo.file_content: the "content" field of the body and its decoding *)

JStr(s) == [t |-> "str", v |-> s]
JNum(s) == [t |-> "num", v |-> s]
JNull == [t |-> "null", v |-> ""]
JAbsent == [t |-> "absent", v |-> ""]     \* the body has no "content" key
NoContent == [t |-> "unread", v |-> ""]   \* no body with a "content" field was read

\* "aGVsbG8=" is base64 of b"hello"; "aGVsbG8" lacks its padding; "/w==" is
\* base64 of b"\xff", which is not UTF-8; 5 is a number where a string belongs
FileContents ==
    {JAbsent, JNull, JStr(""), JStr("aGVsbG8="), JStr("aGVsbG8"), JStr("/w=="), JNum("5")}

\* dict.get("content"): None when the key is missing
dict_get(c) == IF c.t = "absent" THEN JNull ELSE c

\* Python truth value of the field
Truthy(c) == c.t = "num" \/ (c.t = "str" /\ c.v # "")

\* base64.b64decode(content)
b64decode(c) ==
    IF c.t # "str" THEN Raise("TypeError")
    ELSE CASE c.v = "aGVsbG8=" -> Ret("bytes:hello")
           [] c.v = "/w==" -> Ret("bytes:ff")
           [] c.v = "" -> Ret("bytes:")
           [] OTHER -> Raise("binascii.Error")

\* bytes.decode("utf-8")
decode_utf8(b) ==
    CASE b = "bytes:hello" -> Ret("hello")
      [] b = "bytes:" -> Ret("")
      [] OTHER -> Raise("UnicodeDecodeError")

\* except (ValueError, TypeError): binascii.Error and UnicodeDecodeError are
\* subclasses of ValueError
IsValueOrTypeError(e) == e \in {"binascii.Error", "UnicodeDecodeError", "TypeError"}

\* try: return base64.b64decode(content).decode("utf-8") except ...: return None
decoded(c) ==
    LET b == b64decode(c)
        s == IF b.kind = "raise" THEN b ELSE decode_utf8(b.val) IN
    IF s.kind = "raise" /\ IsValueOrTypeError(s.val) THEN Ret("None") ELSE s

\* Repo.file_content on the outcome o of get(...) and the body's content field c
file_content(o, c) ==
    IF o.kind = "raise" THEN o
    \* get returned {"status_code": 204}: no "content" key
    ELSE IF o.val = "marker204" THEN Ret("None")
    \* JSON that is not an object (the listing of a directory): a list has no .get
    ELSE IF o.val # "obj" THEN Raise("AttributeError")
    ELSE IF ~Truthy(dict_get(c)) THEN Ret("None")
    ELSE decoded(dict_get(c))

----------------------------------------------------------------------------
(* The credential holder and the headers of outgoing requests *)

\* values Token._token takes: None (the class attribute's initial value), the
\* empty string, and two tokens
TokenValues == {"None", "", "t1", "t2"}

\* Python truth value of the token: `if cls._token`, `if Token.get_token()`
TokenSet(t) == t \notin {"None", ""}

Auth(t) == [scheme |-> "token", cred |-> t]     \* "Authorization": f"token {t}"
NoAuth == [scheme |-> "none", cred |-> ""]      \* no "Authorization" key
Headers(a, acc) == [auth |-> a, accept |-> acc]
Unbuilt == Headers([scheme |-> "unbuilt", cred |-> ""], FALSE)

\* Token.headers
Token_headers == Headers(IF TokenSet(token) THEN Auth(token) ELSE NoAuth, TRUE)

\* Org.__init__: self.headers, a dict without the "Accept" key
Org_init_headers == Headers(IF TokenSet(token) THEN Auth(token) ELSE NoAuth, FALSE)

\* operations whose requests pass headers=self.headers (through Org._get)
OrgRequestOps == {"Org.exists", "Org.get_repos"}

\* operations whose requests pass headers=Token.headers()
TokenRequestOps ==
    {"Repo.exists", "Repo.file_content", "Repo.create", "Repo.commit",
     "Repo.has_access", "User.exists", "User.can_access"}

Sent(op, h) == [by |-> op, headers |-> h, held |-> token]
NoSent == [by |-> "none", headers |-> Unbuilt, held |-> "None"]

----------------------------------------------------------------------------
(* Requests, and the remote that answers them *)

Req(m, r, u, n) == [m |-> m, r |-> r, u |-> u, n |-> n]

IsCreation(q) == q.m = "POST" /\ q.r \in {"create", "generate"}
IsGrant(q) == q.m = "PUT" /\ q.r = "collab"
IsMutating(q) == q.m \in {"POST", "PUT"}
IsCollabPhase(q) == q.r \in {"user", "collab"}

Ok(s) == StatusResp(s, "obj", FALSE)
NotFound404 == StatusResp(404, "other", FALSE)
Refused422 == StatusResp(422, "other", FALSE)
NoContent204 == StatusResp(204, "bad", FALSE)

PageLen(size, page) ==
    IF size - (page - 1) * PerPage <= 0 THEN 0
    ELSE IF size - (page - 1) * PerPage >= PerPage THEN PerPage
    ELSE size - (page - 1) * PerPage

\* What the remote answers when it answers according to its state
Truthful(q) ==
    CASE q.r = "repo" -> IF repoExists THEN Ok(200) ELSE NotFound404
      [] q.r = "tmpl" -> IF TemplateExists(q.u) THEN Ok(200) ELSE NotFound404
      [] q.r = "create" -> IF repoExists THEN Refused422 ELSE Ok(201)
      [] q.r = "generate" ->
            IF ~TemplateExists(q.u) THEN NotFound404
            ELSE IF repoExists THEN Refused422 ELSE Ok(201)
      [] q.r = "user" -> IF UserExists(q.u) THEN Ok(200) ELSE NotFound404
      [] q.r = "collab" /\ q.m = "GET" ->
            IF repoExists /\ q.u \in access THEN NoContent204 ELSE NotFound404
      [] q.r = "collab" /\ q.m = "PUT" ->
            IF ~repoExists \/ ~UserExists(q.u) THEN NotFound404
            ELSE IF q.u \in access THEN NoContent204 ELSE Ok(201)
      [] q.r = "file" /\ q.m = "GET" ->
            IF repoExists /\ fileRev > 0 THEN Ok(200) ELSE NotFound404
      [] q.r = "file" /\ q.m = "PUT" ->
            IF ~repoExists THEN NotFound404
            ELSE IF fileRev = 0 THEN (IF q.n \in {NoSha, NullSha} THEN Ok(201) ELSE Refused422)
            ELSE IF q.n = fileRev THEN Ok(200) ELSE Refused422
      [] q.r = "org" -> IF OrgExists(q.u) THEN Ok(200) ELSE NotFound404
      [] q.r = "orgrepos" -> IF OrgExists(q.u) THEN Ok(200) ELSE NotFound404

\* The answers a request can get: the truthful one, or, while the budget of
\* disturbances lasts, a transport failure or any status without the resource's body
Answers(q) ==
    {r \in Responses :
        \/ r = Truthful(q)
        \/ faults + ext < MaxDisturb /\ (r.kind # "status" \/ r.body # "obj")}

Applied(q, r) == r = Truthful(q) /\ r.kind = "status" /\ r.status \in {200, 201}

\* a status that reports the request as refused
IsFailure(r) == r.kind = "status" /\ r.status >= 400

\* One request and its answer: the log, the fault count, and the remote's change
Send(q, r) ==
    /\ log' = Append(log, q)
    /\ rlAt' = IF rlAt = 0 /\ IsRateLimited(r) THEN Len(log) + 1 ELSE rlAt
    /\ faults' = IF r = Truthful(q) THEN faults ELSE faults + 1
    /\ repoExists' = (repoExists \/ (IsCreation(q) /\ Applied(q, r)))
    /\ access' = IF IsGrant(q) /\ Applied(q, r) THEN access \cup {q.u} ELSE access
    /\ fileRev' = IF q.m = "PUT" /\ q.r = "file" /\ Applied(q, r)
                  THEN fileRev + 1 ELSE fileRev
    /\ mutFailed' = (mutFailed \/ (IsMutating(q) /\ IsFailure(r)))

Remote == [repo |-> repoExists, access |-> access, file |-> fileRev]

\* how many of this call's requests are of a kind
Count(P(_)) == Cardinality({j \in 1..Len(log) : P(log[j])})

----------------------------------------------------------------------------
(* Calls *)

Seqs(S, n) == UNION {[1..k -> S] : k \in 0..n}
UserLists == Seqs(Users, MaxUsers)

Call(op, tpl, users, org, n) ==
    [op |-> op, tpl |-> tpl, users |-> users, org |-> org, n |-> n]
NoCall == Call("none", NoTemplate, <<>>, "acme", 0)

EnsureCalls ==
    {Call("ensure_repo_state", t, us, "acme", 0) :
        t \in Templates \cup {NoTemplate}, us \in UserLists}

EntityCalls ==
    {Call("Repo.create", t, <<>>, "acme", 0) : t \in Templates \cup {NoTemplate}}
    \cup {Call(op, NoTemplate, <<>>, "acme", 0) :
            op \in {"Repo.exists", "Repo.commit", "Repo.file_content"}}
    \cup {Call(op, NoTemplate, <<u>>, "acme", 0) :
            op \in {"Repo.has_access", "User.exists", "User.can_access"}, u \in Users}
    \cup {Call("Repo.add_collaborators", NoTemplate, us, "acme", 0) : us \in UserLists}
    \cup {Call("Org.exists", NoTemplate, <<>>, o, 0) : o \in Orgs}
    \cup {Call("Org.get_repos", NoTemplate, <<>>, "acme", n) : n \in OrgSizes}
    \cup {Call("Org.get_repos", NoTemplate, <<>>, "nosuch", 0)}

\* First statement of each operation that issues a request
Entry(c) ==
    CASE c.op = "ensure_repo_state" -> "ensure:27"
      [] c.op = "Repo.create" -> "create:85"
      [] c.op = "Repo.exists" -> "Repo.exists:38"
      [] c.op = "Repo.commit" -> "commit:137"
      [] c.op = "Repo.file_content" -> "file_content:61"
      [] c.op = "Repo.has_access" -> "has_access:145"
      [] c.op = "Repo.add_collaborators" ->
            IF c.users = <<>> THEN "done" ELSE "add_collaborators:152"
      [] c.op = "Org.exists" -> "Org.exists:94"
      [] c.op = "Org.get_repos" -> "get_repos:115"
      [] c.op = "User.exists" -> "User.exists:35"
      [] c.op = "User.can_access" -> "can_access:54"

NoProbe == [resp |-> ExcResp("none"), file |-> 0, truthful |-> TRUE]

Begin(c) ==
    /\ pc' = Entry(c)
    /\ result' = IF Entry(c) = "done" THEN Ret("None") ELSE NoResult
    /\ idx' = 1
    /\ sha' = NoSha
    /\ rows' = <<>>
    /\ log' = <<>>
    /\ rlAt' = 0
    /\ pre' = Remote
    /\ probe' = NoProbe
    /\ content' = NoContent
    /\ mutFailed' = FALSE
    /\ UNCHANGED <<remoteVars, faults, ext, httpVars, tokVars>>

\* A caller invokes an entity operation
Invoke ==
    /\ pc = "idle"
    /\ \E c \in EntityCalls :
        /\ c.op = "Repo.commit" => fileRev < MaxRev
        /\ call' = c
        /\ Begin(c)
    /\ UNCHANGED sessVars

\* The operation has returned or raised; the caller goes on
Return ==
    /\ pc = "done"
    /\ pc' = "idle"
    /\ call' = NoCall
    /\ result' = NoResult
    /\ idx' = 1
    /\ sha' = NoSha
    /\ rows' = <<>>
    /\ log' = <<>>
    /\ rlAt' = 0
    /\ faults' = 0
    /\ ext' = 0
    /\ pre' = Remote
    /\ probe' = NoProbe
    /\ content' = NoContent
    /\ mutFailed' = FALSE
    /\ UNCHANGED <<remoteVars, sessVars, httpVars, tokVars>>

----------------------------------------------------------------------------
(* Control *)

CallFrame == UNCHANGED <<call, pre, ext, ncall, prev, hVerb, hResp, hOut, tokVars>>
Frame == CallFrame /\ UNCHANGED content
NoSend == UNCHANGED <<repoExists, access, fileRev, log, rlAt, faults, mutFailed>>
Locals == UNCHANGED <<sha, rows, probe>>

Ctl(l, i, res) == pc' = l /\ idx' = i /\ result' = res
Goto(l) == Ctl(l, idx, result)
Finish(res) == Ctl("done", idx, res)

CurrentUser == call.users[idx]

\* for user in users / for collaborator in collaborators: the next iteration
NextUser ==
    IF idx >= Len(call.users) THEN Finish(Ret("None"))
    ELSE Ctl(IF call.op = "ensure_repo_state" THEN "ensure:34"
             ELSE "add_collaborators:152", idx + 1, result)

\* ensure_repo_state: if users: for user in users
EnterSweep ==
    IF call.users = <<>> THEN Finish(Ret("None")) ELSE Ctl("ensure:34", 1, result)

----------------------------------------------------------------------------
(* Repo.create, repo.py 69-110 *)

\* where create's caller goes on after create returned
CreateReturns ==
    IF call.op = "ensure_repo_state" THEN EnterSweep ELSE Finish(Ret("None"))

\* if self.exists(): raise ValueError(already exists)
Create_Exists ==
    /\ pc = "create:85"
    /\ \E r \in Answers(Req("GET", "repo", "", 0)) :
        /\ Send(Req("GET", "repo", "", 0), r)
        /\ LET o == Repo_exists(r) IN
           IF o.kind = "raise" THEN Finish(o)
           ELSE IF o.val = "True" THEN Finish(Raise("ValueError:exists"))
           ELSE IF call.tpl # NoTemplate THEN Goto("create:91")
           ELSE Goto("create:109")
    /\ Locals /\ Frame

\* create without the template check: the probe's answer is not looked at
Create_Template_Unchecked ==
    /\ pc = "create:91"
    /\ \E r \in Answers(Req("GET", "tmpl", call.tpl, 0)) :
        /\ Send(Req("GET", "tmpl", call.tpl, 0), r)
        /\ Goto("create:109")
    /\ Locals /\ Frame

\* if not template.exists(): raise ValueError(template does not exist)
Create_Template ==
    /\ pc = "create:91"
    /\ \E r \in Answers(Req("GET", "tmpl", call.tpl, 0)) :
        /\ Send(Req("GET", "tmpl", call.tpl, 0), r)
        /\ LET o == Repo_exists(r) IN
           IF o.kind = "raise" THEN Finish(o)
           ELSE IF o.val = "False" THEN Finish(Raise("ValueError:template"))
           ELSE Goto("create:109")
    /\ Locals /\ Frame

CreateRequest ==
    IF call.tpl # NoTemplate THEN Req("POST", "generate", call.tpl, 0)
    ELSE Req("POST", "create", "", 0)

\* response = post(url, ...); logging.info(... response['html_url'])
Create_Post ==
    /\ pc = "create:109"
    /\ \E r \in Answers(CreateRequest) :
        /\ Send(CreateRequest, r)
        /\ LET o == post(r) IN
           IF o.kind = "raise" THEN Finish(o)
           ELSE IF o.val # "obj" THEN Finish(Raise("KeyError"))
           ELSE CreateReturns
    /\ Locals /\ Frame

----------------------------------------------------------------------------
(* User.can_access, user.py 41-60 *)

\* where can_access's caller goes on with the value returned
CanAccessReturns(v) ==
    IF call.op # "ensure_repo_state" THEN Finish(Ret(v))
    ELSE IF v = "True" THEN NextUser
    ELSE Goto("add_user:exists")

\* if not self.exists(): return False
CanAccess_Exists ==
    /\ pc = "can_access:54"
    /\ \E r \in Answers(Req("GET", "user", CurrentUser, 0)) :
        /\ Send(Req("GET", "user", CurrentUser, 0), r)
        /\ LET o == User_exists(r) IN
           IF o.kind = "raise" THEN Finish(o)
           ELSE IF o.val = "False" THEN CanAccessReturns("False")
           ELSE Goto("can_access:59")
    /\ Locals /\ Frame

\* response = requests.get(url, ...); return response.status_code == 204
CanAccess_Probe ==
    /\ pc = "can_access:59"
    /\ \E r \in Answers(Req("GET", "collab", CurrentUser, 0)) :
        /\ Send(Req("GET", "collab", CurrentUser, 0), r)
        /\ LET o == has_access(r) IN
           IF o.kind = "raise" THEN Finish(o) ELSE CanAccessReturns(o.val)
    /\ Locals /\ Frame

----------------------------------------------------------------------------
(* Repo.add_user: called by ensure_repo_state, defined in no source file;    *)
(* taken from the specification's section 4.4                                *)

AddUser_Exists ==
    /\ pc = "add_user:exists"
    /\ \E r \in Answers(Req("GET", "user", CurrentUser, 0)) :
        /\ Send(Req("GET", "user", CurrentUser, 0), r)
        /\ LET o == User_exists(r) IN
           IF o.kind = "raise" THEN Finish(o)
           ELSE IF o.val = "False" THEN Finish(Raise("UserNotFoundError"))
           ELSE Goto("add_user:access")
    /\ Locals /\ Frame

AddUser_Access ==
    /\ pc = "add_user:access"
    /\ \E r \in Answers(Req("GET", "collab", CurrentUser, 0)) :
        /\ Send(Req("GET", "collab", CurrentUser, 0), r)
        /\ LET o == has_access(r) IN
           IF o.kind = "raise" THEN Finish(o)
           ELSE IF o.val = "True" THEN Finish(Raise("AlreadyHasAccessError"))
           ELSE Goto("add_user:grant")
    /\ Locals /\ Frame

AddUser_Grant ==
    /\ pc = "add_user:grant"
    /\ \E r \in Answers(Req("PUT", "collab", CurrentUser, 0)) :
        /\ Send(Req("PUT", "collab", CurrentUser, 0), r)
        /\ LET o == put(r) IN
           IF o.kind = "raise" THEN Finish(o) ELSE NextUser
    /\ Locals /\ Frame

----------------------------------------------------------------------------
(* ensure_repo_state, helpers.py 6-41 *)

\* the repository phase with the test inverted: create when the repository exists
Ensure_RepoPhase_Inverted ==
    /\ pc = "ensure:27"
    /\ \E r \in Answers(Req("GET", "repo", "", 0)) :
        /\ Send(Req("GET", "repo", "", 0), r)
        /\ LET o == Repo_exists(r) IN
           IF o.kind = "raise" THEN Finish(o)
           ELSE IF o.val = "True" THEN Goto("create:85")
           ELSE EnterSweep
    /\ Locals /\ Frame

\* if not repo.exists(): repo.create(...) else: logging.warning(...)
Ensure_RepoPhase ==
    /\ pc = "ensure:27"
    /\ \E r \in Answers(Req("GET", "repo", "", 0)) :
        /\ Send(Req("GET", "repo", "", 0), r)
        /\ LET o == Repo_exists(r) IN
           IF o.kind = "raise" THEN Finish(o)
           ELSE IF o.val = "False" THEN Goto("create:85")
           ELSE EnterSweep
    /\ Locals /\ Frame

\* if not user.exists(): logging.warning(...); continue
Ensure_UserExists ==
    /\ pc = "ensure:34"
    /\ \E r \in Answers(Req("GET", "user", CurrentUser, 0)) :
        /\ Send(Req("GET", "user", CurrentUser, 0), r)
        /\ LET o == User_exists(r) IN
           IF o.kind = "raise" THEN Finish(o)
           ELSE IF o.val = "False" THEN NextUser
           ELSE Goto("can_access:54")
    /\ Locals /\ Frame

----------------------------------------------------------------------------
(* The existence probes called on their own *)

Seen(r, q) == [resp |-> r, file |-> fileRev, truthful |-> (r = Truthful(q))]

\* Repo.exists, repo.py 27-41
Repo_Exists ==
    /\ pc = "Repo.exists:38"
    /\ \E r \in Answers(Req("GET", "repo", "", 0)) :
        /\ Send(Req("GET", "repo", "", 0), r)
        /\ Finish(Repo_exists(r))
        /\ probe' = Seen(r, Req("GET", "repo", "", 0))
    /\ UNCHANGED <<sha, rows>> /\ Frame

\* User.exists, user.py 26-39
User_Exists ==
    /\ pc = "User.exists:35"
    /\ \E r \in Answers(Req("GET", "user", CurrentUser, 0)) :
        /\ Send(Req("GET", "user", CurrentUser, 0), r)
        /\ Finish(User_exists(r))
        /\ probe' = Seen(r, Req("GET", "user", CurrentUser, 0))
    /\ UNCHANGED <<sha, rows>> /\ Frame

\* Org.exists, org.py 82-97
Org_Exists ==
    /\ pc = "Org.exists:94"
    /\ \E r \in Answers(Req("GET", "org", call.org, 0)) :
        /\ Send(Req("GET", "org", call.org, 0), r)
        /\ Finish(Org_exists(r))
        /\ probe' = Seen(r, Req("GET", "org", call.org, 0))
    /\ UNCHANGED <<sha, rows>> /\ Frame

\* Repo.has_access, repo.py 144-148
Repo_HasAccess ==
    /\ pc = "has_access:145"
    /\ \E r \in Answers(Req("GET", "collab", CurrentUser, 0)) :
        /\ Send(Req("GET", "collab", CurrentUser, 0), r)
        /\ Finish(has_access(r))
    /\ Locals /\ Frame

----------------------------------------------------------------------------
(* Repo.commit, repo.py 112-142 *)

\* response = requests.get(url, ...); if response.status_code == 200:
\*     data["sha"] = response.json().get("sha")
\* commit that never attaches the marker
ProbedSha_Never(r) == NoSha

ProbedSha(r) ==
    IF r.status # 200 THEN NoSha
    ELSE IF r.body = "obj" THEN fileRev
    ELSE NullSha

Commit_Probe ==
    /\ pc = "commit:137"
    /\ \E r \in Answers(Req("GET", "file", "", 0)) :
        /\ Send(Req("GET", "file", "", 0), r)
        /\ probe' = Seen(r, Req("GET", "file", "", 0))
        /\ IF r.kind # "status" THEN Finish(RawError(r)) /\ sha' = sha
           ELSE IF r.status = 200 /\ r.body = "bad"
                THEN Finish(Raise("JSONDecodeError")) /\ sha' = sha
           ELSE Goto("commit:141") /\ sha' = ProbedSha(r)
    /\ UNCHANGED rows /\ Frame

\* response = put(url, headers=..., json=data)
Commit_Put ==
    /\ pc = "commit:141"
    /\ \E r \in Answers(Req("PUT", "file", "", sha)) :
        /\ Send(Req("PUT", "file", "", sha), r)
        /\ LET o == put(r) IN
           IF o.kind = "raise" THEN Finish(o) ELSE Finish(Ret("None"))
    /\ Locals /\ Frame

----------------------------------------------------------------------------
(* Repo.file_content, repo.py 43-67 *)

\* the body of a file that is there carries whatever the file holds
ContentsOf(r) ==
    IF r.kind = "status" /\ r.status = 200 /\ r.body = "obj" THEN FileContents
    ELSE {NoContent}

\* if not (content := get(url, ...).get("content")): return None
\* try: return base64.b64decode(content).decode("utf-8") except ...: return None
FileContent_Get ==
    /\ pc = "file_content:61"
    /\ \E r \in Answers(Req("GET", "file", "", 0)) : \E c \in ContentsOf(r) :
        /\ Send(Req("GET", "file", "", 0), r)
        /\ probe' = Seen(r, Req("GET", "file", "", 0))
        /\ content' = c
        /\ Finish(file_content(get(r), c))
    /\ UNCHANGED <<sha, rows>> /\ CallFrame

----------------------------------------------------------------------------
(* Repo.add_collaborators, repo.py 150-173 *)

\* if not self.has_access(collaborator): self._add_collaborator(collaborator)
AddCollaborators_Probe ==
    /\ pc = "add_collaborators:152"
    /\ \E r \in Answers(Req("GET", "collab", CurrentUser, 0)) :
        /\ Send(Req("GET", "collab", CurrentUser, 0), r)
        /\ LET o == has_access(r) IN
           IF o.kind = "raise" THEN Finish(o)
           ELSE IF o.val = "True" THEN NextUser
           ELSE Goto("_add_collaborator:156")
    /\ Locals /\ Frame

\* requests.put(..., headers=self.headers, ...): Repo.__init__ (repo.py 22-25)
\* sets org, name and api_url and no attribute headers, so the argument's
\* evaluation raises before any request is made
AddCollaborator_Grant ==
    /\ pc = "_add_collaborator:156"
    /\ Finish(Raise("AttributeError"))
    /\ NoSend /\ Locals /\ Frame

----------------------------------------------------------------------------
(* Org.get_repos, org.py 99-161 *)

\* one pass of the while True loop: fetch the page, select the columns, stop
\* on an empty frame, else append and count the page up
GetRepos_Page ==
    /\ pc = "get_repos:115"
    /\ \E r \in Answers(Req("GET", "orgrepos", call.org, idx)) :
        /\ Send(Req("GET", "orgrepos", call.org, idx), r)
        /\ LET o == Org_get(r)
               n == PageLen(call.n, idx) IN
           IF o.kind = "raise" THEN Finish(o) /\ rows' = rows
           \* .loc[:, [...]] on a frame that has none of the columns
           ELSE IF o.val # "obj" \/ n = 0 THEN Finish(Raise("KeyError")) /\ rows' = rows
           ELSE /\ rows' = Append(rows, <<idx, n>>)
                /\ IF idx + 1 > PageCap THEN Ctl("done", idx + 1, Ret("DataFrame"))
                   ELSE Ctl("get_repos:115", idx + 1, result)
    /\ UNCHANGED <<sha, probe>> /\ Frame

----------------------------------------------------------------------------
(* Another actor on the remote, while a call is in progress *)

RepoOps ==
    {"ensure_repo_state", "Repo.create", "Repo.exists", "Repo.commit", "Repo.has_access",
     "Repo.add_collaborators", "User.can_access"}
Running == pc \notin {"idle", "done"} /\ call.op \in RepoOps /\ faults + ext < MaxDisturb
ExtFrame ==
    UNCHANGED <<call, pc, idx, sha, rows, result, log, rlAt, faults, pre, probe,
                sessVars, httpVars, content, mutFailed, tokVars>>

ExtDeleteRepo ==
    /\ Running /\ repoExists
    /\ repoExists' = FALSE /\ access' = {} /\ fileRev' = 0
    /\ ext' = ext + 1 /\ ExtFrame

ExtCreateRepo ==
    /\ Running /\ ~repoExists
    /\ repoExists' = TRUE /\ UNCHANGED <<access, fileRev>>
    /\ ext' = ext + 1 /\ ExtFrame

ExtSetAccess ==
    /\ Running /\ repoExists
    /\ \E u \in ExistingUsers :
        access' = IF u \in access THEN access \ {u} ELSE access \cup {u}
    /\ UNCHANGED <<repoExists, fileRev>>
    /\ ext' = ext + 1 /\ ExtFrame

ExtWriteFile ==
    /\ Running /\ repoExists
    /\ \/ fileRev < MaxRev /\ fileRev' = fileRev + 1
       \/ fileRev > 0 /\ fileRev' = 0
    /\ UNCHANGED <<repoExists, access>>
    /\ ext' = ext + 1 /\ ExtFrame

----------------------------------------------------------------------------
(* The entity operations, called one after another *)

\* what the next call knows of the one before: its outcome, when every answer it
\* got was truthful and no other actor stepped in; nothing otherwise
NoPrev == [clean |-> FALSE, result |-> NoResult, muts |-> 0]

RemoteInit ==
    /\ repoExists \in BOOLEAN
    /\ access \in SUBSET ExistingUsers
    /\ fileRev \in 0..1
    /\ ~repoExists => access = {} /\ fileRev = 0

ClientInit ==
    /\ pc = "idle"
    /\ result = NoResult
    /\ idx = 1
    /\ sha = NoSha
    /\ rows = <<>>
    /\ log = <<>>
    /\ rlAt = 0
    /\ faults = 0
    /\ ext = 0
    /\ pre = Remote
    /\ probe = NoProbe
    /\ ncall = 0
    /\ prev = NoPrev
    /\ hVerb = "none"
    /\ hResp = ExcResp("none")
    /\ hOut = NoResult
    /\ content = NoContent
    /\ mutFailed = FALSE
    /\ token = "None"
    /\ orgHeaders = [o \in Orgs |-> Unbuilt]
    /\ sent = NoSent

Init == RemoteInit /\ ClientInit /\ call = NoCall

Next ==
    \/ Invoke
    \/ Return
    \/ Create_Exists
    \/ Create_Template
    \/ Create_Post
    \/ CanAccess_Exists
    \/ CanAccess_Probe
    \/ Repo_Exists
    \/ User_Exists
    \/ Org_Exists
    \/ Repo_HasAccess
    \/ Commit_Probe
    \/ Commit_Put
    \/ FileContent_Get
    \/ AddCollaborators_Probe
    \/ AddCollaborator_Grant
    \/ GetRepos_Page
    \/ ExtDeleteRepo
    \/ ExtCreateRepo
    \/ ExtSetAccess
    \/ ExtWriteFile

Spec == Init /\ [][Next]_vars

----------------------------------------------------------------------------
(* ensure_repo_state, called repeatedly with the same arguments *)

InitEnsure == RemoteInit /\ fileRev = 0 /\ ClientInit /\ call \in EnsureCalls

EnsureInvoke ==
    /\ pc = "idle"
    /\ ncall < MaxCalls
    /\ ncall' = ncall + 1
    /\ Begin(call)
    /\ UNCHANGED <<call, prev>>

EnsureReturn ==
    /\ pc = "done"
    /\ pc' = "idle"
    /\ prev' = IF faults = 0 /\ ext = 0
                THEN [clean |-> TRUE, result |-> result, muts |-> Count(IsMutating)]
                ELSE NoPrev
    /\ result' = NoResult
    /\ idx' = 1
    /\ log' = <<>>
    /\ rlAt' = 0
    /\ pre' = Remote
    /\ mutFailed' = FALSE
    /\ UNCHANGED <<remoteVars, call, sha, rows, probe, ncall, faults, ext, httpVars,
                   content, tokVars>>

NextEnsure ==
    \/ EnsureInvoke
    \/ EnsureReturn
    \/ Ensure_RepoPhase
    \/ Ensure_UserExists
    \/ Create_Exists
    \/ Create_Template
    \/ Create_Post
    \/ CanAccess_Exists
    \/ CanAccess_Probe
    \/ AddUser_Exists
    \/ AddUser_Access
    \/ AddUser_Grant
    \/ ExtDeleteRepo
    \/ ExtCreateRepo
    \/ ExtSetAccess

SpecEnsure == InitEnsure /\ [][NextEnsure]_vars

----------------------------------------------------------------------------
(* The transport helper on its own: every verb against every response *)

Exchange ==
    /\ \E v \in Verbs, r \in Responses :
        /\ hVerb' = v
        /\ hResp' = r
        /\ hOut' = Dispatch(v, r)
    /\ UNCHANGED <<remoteVars, call, pc, idx, sha, rows, result, log, rlAt, faults,
                   ext, pre, probe, sessVars, content, mutFailed, tokVars>>

NextHttp == Exchange

SpecHttp == Init /\ [][NextHttp]_vars

----------------------------------------------------------------------------
(* Tokens set, entity objects constructed and requests built, in any order *)

TokenFrame ==
    UNCHANGED <<remoteVars, call, pc, idx, sha, rows, result, log, rlAt, faults, ext,
                pre, probe, sessVars, httpVars, content, mutFailed>>

\* Token.set_token, token.py 11-21
SetToken ==
    /\ \E t \in TokenValues : token' = t
    /\ UNCHANGED <<orgHeaders, sent>> /\ TokenFrame

\* Org.__init__, org.py 19-25
Org_Init ==
    /\ \E o \in Orgs : orgHeaders' = [orgHeaders EXCEPT ![o] = Org_init_headers]
    /\ UNCHANGED <<token, sent>> /\ TokenFrame

\* Org._get, org.py 55-57: requests.get(url, headers=self.headers, ...)
Org_Request ==
    /\ \E o \in Orgs, op \in OrgRequestOps :
        /\ orgHeaders[o] # Unbuilt
        /\ sent' = Sent(op, orgHeaders[o])
    /\ UNCHANGED <<token, orgHeaders>> /\ TokenFrame

\* Repo and User operations: headers=Token.headers() at each request
Token_Request ==
    /\ \E op \in TokenRequestOps : sent' = Sent(op, Token_headers)
    /\ UNCHANGED <<token, orgHeaders>> /\ TokenFrame

NextToken ==
    \/ SetToken
    \/ Org_Init
    \/ Org_Request
    \/ Token_Request

SpecToken == Init /\ [][NextToken]_vars

----------------------------------------------------------------------------
(* The operations that probe and then change the remote, with another actor *)

RaceCalls ==
    EnsureCalls
    \cup {c \in EntityCalls : c.op \in {"Repo.create", "Repo.commit", "Repo.add_collaborators"}}

InvokeRace ==
    /\ pc = "idle"
    /\ \E c \in RaceCalls :
        /\ c.op = "Repo.commit" => fileRev < MaxRev
        /\ call' = c
        /\ Begin(c)
    /\ UNCHANGED sessVars

\* one call in each behaviour, from any state of the remote
NextRace ==
    \/ InvokeRace
    \/ Ensure_RepoPhase
    \/ Ensure_UserExists
    \/ Create_Exists
    \/ Create_Template
    \/ Create_Post
    \/ CanAccess_Exists
    \/ CanAccess_Probe
    \/ AddUser_Exists
    \/ AddUser_Access
    \/ AddUser_Grant
    \/ Commit_Probe
    \/ Commit_Put
    \/ AddCollaborators_Probe
    \/ AddCollaborator_Grant
    \/ ExtDeleteRepo
    \/ ExtCreateRepo
    \/ ExtSetAccess
    \/ ExtWriteFile

SpecRace == Init /\ [][NextRace]_vars

----------------------------------------------------------------------------
(* Properties of the transport helper *)

\* The dispatch table of the specification, section 4.1
TableOutcome(r) ==
    IF r.status \in {200, 201}
    THEN (IF r.body = "bad" THEN Raise("RuntimeError:json") ELSE Ret(r.body))
    ELSE IF r.status = 204 THEN Ret("marker204")
    ELSE IF r.status = 404 THEN Raise("ValueError:notfound")
    ELSE IF r.status = 403 /\ r.rl0 THEN Raise("RuntimeError:ratelimit")
    ELSE RaiseStatus("RuntimeError:unexpected", r.status)

\* C5: for every verb (get, post, put, Org._get) and every status response, the
\* helper's outcome is the one the specification's table gives: 200/201 with a
\* JSON body returns the body, with an unparsable body raises the malformed
\* response error, 204 returns the marker, 404 raises not-found, 403 with zero
\* remaining raises the rate-limit error, anything else raises the unexpected
\* status error with the status.
C5_DispatchMatchesTable ==
    (hVerb \in Verbs /\ hResp.kind = "status") => hOut = TableOutcome(hResp)

----------------------------------------------------------------------------
(* Properties of the entity operations *)

Done(op) == pc = "done" /\ call.op = op
Clean == faults = 0 /\ ext = 0

\* C4: once a request of a call has been answered 403 with zero remaining, the
\* call issues no further request and ends by raising the rate-limit error.
C4_RateLimitStops ==
    /\ rlAt > 0 => Len(log) = rlAt
    /\ (pc = "done" /\ rlAt > 0) => result = Raise("RuntimeError:ratelimit")

\* C6: Repo.create raises already-exists when the repository exists at call time
\* and template-not-found when a template is given and does not exist, in both
\* cases without a creation request and without a change to the remote;
\* otherwise it issues exactly one creation request, generate-from-template when
\* a template is given and plain create when not.  The cases are those of a call
\* answered truthfully with no other actor; in every call, the two errors come
\* with no creation request, and there is never more than one.
C6_CreatePreconditions ==
    Done("Repo.create") =>
        /\ Count(IsCreation) <= 1
        /\ result.val \in {"ValueError:exists", "ValueError:template"}
              => Count(IsCreation) = 0 /\ (ext = 0 => Remote = pre)
        /\ Clean =>
              IF pre.repo
              THEN result = Raise("ValueError:exists")
              ELSE IF call.tpl # NoTemplate /\ ~TemplateExists(call.tpl)
              THEN result = Raise("ValueError:template")
              ELSE /\ Count(IsCreation) = 1
                   /\ log[Len(log)] =
                        IF call.tpl # NoTemplate
                        THEN Req("POST", "generate", call.tpl, 0)
                        ELSE Req("POST", "create", "", 0)
                   /\ result = Ret("None")

C6_Witness ==
    /\ Done("Repo.create") /\ Clean
    /\ call.tpl = "missing"
    /\ result = Raise("ValueError:template")
    /\ log = <<Req("GET", "repo", "", 0), Req("GET", "tmpl", "missing", 0)>>

\* C7: the create-or-update request of Repo.commit carries a revision marker if
\* and only if the file existed when the preceding probe of the same call was
\* answered, and the marker is then the file's revision at that moment; the
\* probe is the request right before it.  (The probe answered truthfully.)
C7_CommitMarker ==
    \A j \in 1..Len(log) :
        (call.op = "Repo.commit" /\ log[j].m = "PUT") =>
            /\ j = 2 /\ log[1] = Req("GET", "file", "", 0)
            /\ probe.truthful =>
                  /\ log[j].n # NoSha <=> probe.file > 0
                  /\ probe.file > 0 => log[j].n = probe.file

\* a second commit: the file was there at revision 1, the update carried marker 1
C7_Witness ==
    /\ Done("Repo.commit") /\ Clean
    /\ pre.file = 1
    /\ log = <<Req("GET", "file", "", 0), Req("PUT", "file", "", 1)>>
    /\ result = Ret("None")
    /\ fileRev = 2

\* C8: adding a collaborator who was granted access, with no revocation since,
\* raises the already-has-access error and issues no grant request.
C8_SecondAddRaises ==
    (/\ Done("Repo.add_collaborators") /\ Clean
     /\ Len(call.users) = 1
     /\ pre.repo /\ call.users[1] \in pre.access)
        => result = Raise("AlreadyHasAccessError") /\ Count(IsGrant) = 0

UnexpectedStatus(r) ==
    r.kind = "status" /\ r.status \notin {200, 204, 404} /\ ~IsRateLimited(r)

\* C9: exists() of Org, Repo and User returns False when the probe is answered
\* 404, True when it is answered 200 with a JSON body, and raises the transport
\* helper's error for a timeout, a connection failure, another transport
\* exception, a rate limit, an unexpected status and an unparsable body.
C9_ExistsProbe ==
    (pc = "done" /\ call.op \in {"Repo.exists", "User.exists", "Org.exists"}) =>
        LET r == probe.resp IN
        /\ (r.kind = "status" /\ r.status = 404) => result = Ret("False")
        /\ (r.kind = "status" /\ r.status = 200 /\ r.body # "bad") => result = Ret("True")
        /\ (r.kind = "status" /\ r.status = 200 /\ r.body = "bad")
              => result = Raise("RuntimeError:json")
        /\ r.kind \in {"timeout", "connerr"} => result = Raise("ConnectionError")
        /\ r.kind = "reqexc" => result = Raise("RuntimeError:transport")
        /\ IsRateLimited(r) => result = Raise("RuntimeError:ratelimit")
        /\ UnexpectedStatus(r) => result = RaiseStatus("RuntimeError:unexpected", r.status)

C9_Witness ==
    /\ Done("Repo.exists")
    /\ IsRateLimited(probe.resp)
    /\ result = Raise("RuntimeError:ratelimit")

\* the chunks of every non-empty page of an organization of `size` repositories
RECURSIVE PagesFrom(_, _)
PagesFrom(size, page) ==
    IF PageLen(size, page) = 0 THEN <<>>
    ELSE <<<<page, PageLen(size, page)>>>> \o PagesFrom(size, page + 1)

\* C10: Org.get_repos fetches pages 1, 2, 3, ... in order and stops at the first
\* empty page, returning the records of all non-empty pages in page order; for
\* an organization without repositories that is one fetch and an empty result.
C10_AllPages ==
    (Done("Org.get_repos") /\ OrgExists(call.org) /\ faults = 0) =>
        /\ result = Ret("DataFrame")
        /\ rows = PagesFrom(call.n, 1)
        /\ log = [p \in 1..(Len(rows) + 1) |-> Req("GET", "orgrepos", call.org, p)]

----------------------------------------------------------------------------
(* Properties of ensure_repo_state *)

Probed(u) == \E j \in 1..Len(log) : log[j] = Req("GET", "user", u, 0)

\* C2: a failure while handling one user does not abort the sweep: once the
\* collaborator phase has begun, every user of the list is processed.
C2_SweepContinues ==
    (pc = "done" /\ call.op = "ensure_repo_state" /\ Count(IsCollabPhase) > 0) =>
        \A k \in 1..Len(call.users) : Probed(call.users[k])

FreshRepoNoUsers ==
    /\ Done("ensure_repo_state") /\ Clean
    /\ ~pre.repo
    /\ call.users = <<>>

OneCreation ==
    /\ Count(IsCreation) = 1
    /\ Count(IsCollabPhase) = 0
    /\ log[Len(log)] = IF call.tpl # NoTemplate THEN Req("POST", "generate", call.tpl, 0)
                       ELSE Req("POST", "create", "", 0)
    /\ repoExists
    /\ result = Ret("None")

\* C3 as stated: for a repository absent from the remote and an empty user list,
\* one call issues exactly one creation request (generate-from-template when a
\* template is given), the repository then exists, no collaborator request is
\* issued and no error is raised.
C3_CreatesOnce_Stated == FreshRepoNoUsers => OneCreation

\* C3 as amended: the same, when the template, if one is given, exists.
C3_CreatesOnce ==
    (FreshRepoNoUsers /\ (call.tpl = NoTemplate \/ TemplateExists(call.tpl))) => OneCreation

C3_Witness ==
    /\ FreshRepoNoUsers
    /\ call.tpl = "tmpl"
    /\ log[Len(log)] = Req("POST", "generate", "tmpl", 0)
    /\ repoExists

SecondCall ==
    /\ Done("ensure_repo_state") /\ Clean
    /\ ncall >= 2
    /\ prev.clean

\* C1 as stated: the second of two successive calls with the same arguments, no
\* other actor in between, raises no error, issues no mutating request and
\* leaves the remote as the first call left it.
C1_Idempotent_Stated ==
    SecondCall =>
        /\ result.kind = "ret"
        /\ Count(IsMutating) = 0
        /\ Remote = pre

\* C1 as amended: the second call issues no mutating request and leaves the
\* remote as the first call left it; it ends as the first call ended, so it
\* raises no error when the first call raised none.
C1_Idempotent ==
    SecondCall =>
        /\ Count(IsMutating) = 0
        /\ Remote = pre
        /\ result = prev.result

\* the first call created the repository and granted access, the second did nothing
C1_Witness ==
    /\ SecondCall
    /\ prev.muts >= 2
    /\ result = Ret("None")
    /\ Len(log) > 1

----------------------------------------------------------------------------
(* Properties of Repo.file_content *)

\* the file was found and its body read
FileFound == probe.resp.kind = "status" /\ probe.resp.status = 200 /\ probe.resp.body = "obj"
FileNotFound == probe.resp.kind = "status" /\ probe.resp.status = 404

\* the contents that are non-empty and decode: base64 of UTF-8 text
Decodable == {JStr("aGVsbG8=")}

\* C11: Repo.file_content returns None, and does not raise, when the file is not
\* found, when the body's content is empty or missing, and when the content does
\* not decode; it returns text only when the body carries non-empty content that
\* decodes, and then the decoded text.
C11_FileContentAbsent ==
    Done("Repo.file_content") =>
        /\ (FileNotFound \/ (FileFound /\ content \notin Decodable)) => result = Ret("None")
        /\ (result.kind = "ret" /\ result.val # "None") =>
                FileFound /\ content \in Decodable /\ result = Ret("hello")

----------------------------------------------------------------------------
(* Properties of the credential holder *)

\* C12: every request an entity operation builds carries the authorization
\* header of the token held when the request is built, and none exactly when no
\* token is held, whenever the entity object was constructed.
C12_TokenFresh ==
    sent.by # "none" =>
        sent.headers.auth = IF TokenSet(sent.held) THEN Auth(sent.held) ELSE NoAuth

----------------------------------------------------------------------------
(* Properties of the operations that probe and then act *)

StatusErrors == {"ValueError:notfound", "RuntimeError:ratelimit", "RuntimeError:unexpected"}

====
